---------------------------- MODULE Spec2Model ----------------------------
(***************************************************************************)
(* A model of vivarium's layered configuration tree                        *)
(* (src/src/vivarium/config_tree.py) and of the component manager's setup  *)
(* protocol (src/src/vivarium/framework/components/manager.py).            *)
(*                                                                         *)
(* Python values are modelled as follows.                                  *)
(*   - a scalar v is the pair <<"s", v>>, a dict d is the pair <<"d", f>>   *)
(*     where f maps the dict's keys to values;                             *)
(*   - a ConfigTree is [kind |-> "tree", frozen, body] where body maps the  *)
(*     keys of _children to children; a ConfigNode is                      *)
(*     [kind |-> "node", frozen, body] where body maps the layers that hold *)
(*     an entry to the pair <<source, value>>;                             *)
(*   - a call returns [err |-> "none", ...] or [err |-> <exception>, ...];  *)
(*     an exception leaves in place what the call had written before it.   *)
(***************************************************************************)
EXTENDS Integers, Sequences, FiniteSets, TLC

VARIABLES
    layers,        \* ConfigTree._layers : ascending priority
    config,        \* the configuration tree
    nops,          \* number of operations issued so far
    written,       \* history: <<path, layer, source, value>> of completed writes
    dirty,         \* history: leaf paths named by an update that raised
    last,          \* history: the last operation, its inputs and its outcome
    managers,      \* ComponentManager._managers
    components,    \* ComponentManager._components
    phase,         \* position inside ComponentManager.setup_components
    configured,    \* setup_components' local list `configured`
    setup,         \* setup_components' local list `setup`
    setupCalls,    \* history: components whose setup callback was invoked
    mergeCalls,    \* history: components whose defaults were applied
    enqueued,      \* history: everything put on the worklist being drained
    dequeued,      \* history: everything popped off the worklist being drained
    appended,      \* history: <<c, x>> when the setup callback of c registered x
    err            \* the exception setup_components ended with, or "none"

vars == <<layers, config, nops, written, dirty, last, managers, components,
          phase, configured, setup, setupCalls, mergeCalls, enqueued,
          dequeued, appended, err>>

-----------------------------------------------------------------------------
(* Bounds and input sets *)

MaxOps == 3

MaxTreeOps == 2

None == "None"

Keys == {"a", "b", "update"}

KeyOrder == <<"a", "b", "update">>

Scalars == {0, 1}

Sources == {"s1", "s2"}

Sc(v) == <<"s", v>>

Dc(f) == <<"d", f>>

IsDict(value) == value[1] = "d"

NoEntries == [k \in {} |-> 0]

Range(s) == {s[i] : i \in DOMAIN s}

-----------------------------------------------------------------------------
(* ConfigNode *)

EmptyNode == [kind |-> "node", frozen |-> FALSE, body |-> NoEntries]

EmptyTree == [kind |-> "tree", frozen |-> FALSE, body |-> NoEntries]

Ok(t) == [err |-> "none", tree |-> t]

Raise(e, t) == [err |-> e, tree |-> t]

\* A plausible slip: ConfigurationKeyError not derived from KeyError.
IsKeyErrorPlain(e) == e = "KeyError"

\* A plausible slip: ComponentConfigError derived from KeyError as well.
IsKeyErrorBroad(e) ==
    e \in {"ConfigurationKeyError", "KeyError", "ComponentConfigError"}

\* isinstance(e, KeyError): ConfigurationKeyError derives from KeyError.
IsKeyError(e) == e \in {"ConfigurationKeyError", "KeyError"}

\* isinstance(e, ConfigurationError): ConfigurationKeyError derives from it.
IsConfigurationError(e) == e \in {"ConfigurationError", "ConfigurationKeyError"}

IsTree(x) == x.kind = "tree"

LayerIndex(ls, layer) == CHOOSE i \in DOMAIN ls : ls[i] = layer

\* ConfigNode.set: write at a named layer, the outermost when none is named.
NodeSet(ls, node, value, layer, source) ==
    IF node.frozen THEN Raise("ConfigurationError", node)
    ELSE LET lay == IF layer = None THEN ls[Len(ls)] ELSE layer IN
         IF lay \notin Range(ls) THEN Raise("ConfigurationKeyError", node)
         ELSE Ok([node EXCEPT !.body =
                    [l \in DOMAIN node.body \cup {lay} |->
                        IF l = lay THEN <<source, value>> ELSE node.body[l]]])

\* ConfigNode.get: the entry of the named layer, or of the highest-priority
\* layer that holds one.
NodeGet(ls, node, layer) ==
    IF layer # None
    THEN IF layer \in DOMAIN node.body
         THEN [err |-> "none", val |-> node.body[layer][2]]
         ELSE [err |-> "ConfigurationKeyError", val |-> None]
    ELSE IF DOMAIN node.body = {}
         THEN [err |-> "ConfigurationKeyError", val |-> None]
         ELSE LET top == CHOOSE i \in DOMAIN ls :
                            /\ ls[i] \in DOMAIN node.body
                            /\ \A j \in DOMAIN ls :
                                  ls[j] \in DOMAIN node.body => j <= i
              IN [err |-> "none", val |-> node.body[ls[top]][2]]

\* ConfigNode.provenance: (layer, source, value) in ascending priority.
RECURSIVE NodeMetadata(_, _, _)
NodeMetadata(ls, node, i) ==
    IF i > Len(ls) THEN <<>>
    ELSE (IF ls[i] \in DOMAIN node.body
          THEN <<<<ls[i], node.body[ls[i]][1], node.body[ls[i]][2]>>>>
          ELSE <<>>) \o NodeMetadata(ls, node, i + 1)

-----------------------------------------------------------------------------
(* ConfigTree *)

WithChild(tree, name, child) ==
    [tree EXCEPT !.body = [k \in DOMAIN tree.body \cup {name} |->
                              IF k = name THEN child ELSE tree.body[k]]]

Contains(tree, name) == name \in DOMAIN tree.body

KeysOf(tree) == DOMAIN tree.body

RECURSIVE UpdateKeys(_, _, _, _, _, _)
RECURSIVE SetWithMetadata(_, _, _, _, _, _)

\* ConfigTree._set_with_metadata
SetWithMetadata(ls, tree, name, value, layer, source) ==
    IF tree.frozen THEN Raise("ConfigurationError", tree)
    ELSE IF IsDict(value)
    THEN LET child == IF Contains(tree, name) THEN tree.body[name] ELSE EmptyTree IN
         IF ~IsTree(child) THEN Raise("ConfigurationError", tree)
         ELSE LET r == UpdateKeys(ls, child, value[2], KeyOrder, layer, source) IN
              [err |-> r.err, tree |-> WithChild(tree, name, r.tree)]
    ELSE LET child == IF Contains(tree, name) THEN tree.body[name] ELSE EmptyNode IN
         IF IsTree(child) THEN Raise("ConfigurationError", tree)
         ELSE LET r == NodeSet(ls, child, value, layer, source) IN
              [err |-> r.err, tree |-> WithChild(tree, name, r.tree)]

\* The loop of ConfigTree.update over data.items(), in the dict's key order.
UpdateKeys(ls, tree, data, ks, layer, source) ==
    IF ks = <<>> THEN Ok(tree)
    ELSE IF Head(ks) \notin DOMAIN data
    THEN UpdateKeys(ls, tree, data, Tail(ks), layer, source)
    ELSE LET r == SetWithMetadata(ls, tree, Head(ks), data[Head(ks)], layer, source) IN
         IF r.err # "none" THEN r
         ELSE UpdateKeys(ls, r.tree, data, Tail(ks), layer, source)

\* A plausible slip: the children are rebuilt from the data alone.
UpdateReplacing(ls, tree, data, layer, source) ==
    UpdateKeys(ls, [tree EXCEPT !.body = NoEntries], data, KeyOrder, layer, source)

\* A plausible slip: keys that the tree already has are skipped.
UpdateKeeping(ls, tree, data, layer, source) ==
    UpdateKeys(ls, tree, [k \in {j \in DOMAIN data : ~Contains(tree, j)} |-> data[k]],
               KeyOrder, layer, source)

\* A plausible slip: the exception of a key is caught and dropped.
UpdateSwallowing(ls, tree, data, layer, source) ==
    Ok(UpdateKeys(ls, tree, data, KeyOrder, layer, source).tree)

\* A plausible slip: a layer that is not known falls back to the outermost.
UpdateDefaulting(ls, tree, data, layer, source) ==
    UpdateKeys(ls, tree, data, KeyOrder,
               IF layer \in Range(ls) THEN layer ELSE None, source)

\* A plausible slip: the source is not handed on to the leaves.
UpdateUnsourced(ls, tree, data, layer, source) ==
    UpdateKeys(ls, tree, data, KeyOrder, layer, None)

\* ConfigTree.update(data, layer, source)
Update(ls, tree, data, layer, source) ==
    UpdateKeys(ls, tree, data, KeyOrder, layer, source)

\* ConfigTree.get_from_layer(name, layer): a missing key reads as an empty
\* subtree that is not stored, a subtree reads as itself, a leaf as its value.
\* The result also carries the key a raised exception names and the tree as
\* the call leaves it.
GetFromLayer(ls, tree, name, layer) ==
    IF ~Contains(tree, name)
    THEN [err |-> "none", kind |-> "tree", val |-> EmptyTree, key |-> None,
          tree |-> tree]
    ELSE IF IsTree(tree.body[name])
    THEN [err |-> "none", kind |-> "tree", val |-> tree.body[name], key |-> None,
          tree |-> tree]
    ELSE LET r == NodeGet(ls, tree.body[name], layer) IN
         [err |-> r.err, kind |-> "value", val |-> r.val,
          key |-> IF r.err = "none" THEN None ELSE name, tree |-> tree]

\* A plausible slip: resolve at the innermost layer instead of the outermost.
GetItemInnermost(ls, tree, name) == GetFromLayer(ls, tree, name, ls[1])

\* A plausible slip: keep the empty subtree handed out for a missing key.
GetItemStoring(ls, tree, name) ==
    LET r == GetFromLayer(ls, tree, name, None) IN
    IF Contains(tree, name) THEN r
    ELSE [r EXCEPT !.tree = WithChild(tree, name, EmptyTree)]

\* ConfigTree.__getitem__
GetItem(ls, tree, name) == GetFromLayer(ls, tree, name, None)

\* The names that ordinary attribute lookup finds on a ConfigTree: the methods
\* the class defines.
Attributes == {"update"}

\* config.name: ordinary lookup first, ConfigTree.__getattr__ when it fails.
GetAttr(ls, tree, name) ==
    IF name \in Attributes
    THEN [err |-> "none", kind |-> "method", val |-> None, key |-> None,
          tree |-> tree]
    ELSE GetFromLayer(ls, tree, name, None)

\* A plausible slip: no test that the key exists, so assignment creates it.
SetItemCreating(ls, tree, name, value) ==
    SetWithMetadata(ls, tree, name, value, None, None)

\* A plausible slip: assignment names the innermost layer.
SetItemInnermost(ls, tree, name, value) ==
    IF ~Contains(tree, name) THEN Raise("ConfigurationKeyError", tree)
    ELSE SetWithMetadata(ls, tree, name, value, ls[1], None)

\* ConfigTree.__setitem__
SetItem(ls, tree, name, value) ==
    IF ~Contains(tree, name) THEN Raise("ConfigurationKeyError", tree)
    ELSE SetWithMetadata(ls, tree, name, value, None, None)

\* A plausible slip: attribute assignment without the test that the key exists.
SetAttrCreating(ls, tree, name, value) ==
    SetWithMetadata(ls, tree, name, value, None, None)

\* ConfigTree.__setattr__
SetAttr(ls, tree, name, value) ==
    IF ~Contains(tree, name) THEN Raise("ConfigurationKeyError", tree)
    ELSE SetWithMetadata(ls, tree, name, value, None, None)

\* del self._children[name]
WithoutChild(tree, name) ==
    [tree EXCEPT !.body = [k \in DOMAIN tree.body \ {name} |-> tree.body[k]]]

\* ConfigTree.__delitem__
DelItem(tree, name) ==
    IF Contains(tree, name) THEN Ok(WithoutChild(tree, name)) ELSE Ok(tree)

\* ConfigTree.__delattr__
DelAttr(tree, name) ==
    IF Contains(tree, name) THEN Ok(WithoutChild(tree, name)) ELSE Ok(tree)

\* Chained access tree[k1][k2]..., or tree.k1.k2... for keys that are not
\* attribute names: each step is a __getitem__.
RECURSIVE ReadPath(_, _, _)
ReadPath(ls, tree, path) ==
    LET r == GetItem(ls, tree, Head(path)) IN
    IF Len(path) = 1 \/ r.err # "none" THEN r
    ELSE IF r.kind # "tree"
    THEN [err |-> "AttributeError", kind |-> "value", val |-> None,
          key |-> path[2], tree |-> r.tree]
    ELSE LET s == ReadPath(ls, r.val, Tail(path)) IN
         [s EXCEPT !.tree = IF Contains(r.tree, Head(path))
                            THEN WithChild(r.tree, Head(path), s.tree)
                            ELSE r.tree]

\* Chained assignment tree.k1.k2 = value: __getattr__ down to the parent,
\* then __setattr__ on it.  The parent is shared by reference, so a write to
\* a stored subtree is a write to the tree; a write to the unstored empty
\* subtree of a missing key is not.
RECURSIVE AssignPath(_, _, _, _)
AssignPath(ls, tree, path, value) ==
    IF Len(path) = 1 THEN SetItem(ls, tree, Head(path), value)
    ELSE LET r == GetItem(ls, tree, Head(path)) IN
         IF r.kind # "tree" THEN Raise("AttributeError", tree)
         ELSE LET s == AssignPath(ls, r.val, Tail(path), value) IN
              IF Contains(tree, Head(path))
              THEN [err |-> s.err, tree |-> WithChild(tree, Head(path), s.tree)]
              ELSE [err |-> s.err, tree |-> tree]

\* ConfigTree.__len__
Length(tree) == Cardinality(DOMAIN tree.body)

\* ConfigTree.provenance(name): the entries of the leaf in ascending layer
\* priority; a key that is not in the tree raises a key error naming it.  What
\* the provenance of a subtree is, is left open: the call is reported as
\* "Unspecified" and nothing rests on it.
Metadata(ls, tree, name) ==
    IF ~Contains(tree, name)
    THEN [err |-> "ConfigurationKeyError", key |-> name, val |-> <<>>]
    ELSE IF IsTree(tree.body[name])
    THEN [err |-> "Unspecified", key |-> name, val |-> <<>>]
    ELSE [err |-> "none", key |-> None,
          val |-> NodeMetadata(ls, tree.body[name], 1)]

\* tree.k1.k2.provenance(k3): __getattr__ down to the parent, then the query.
MetadataPath(ls, tree, path) ==
    IF Len(path) = 1 THEN Metadata(ls, tree, Head(path))
    ELSE LET r == ReadPath(ls, tree, SubSeq(path, 1, Len(path) - 1)) IN
         IF r.err # "none" THEN [err |-> r.err, key |-> r.key, val |-> <<>>]
         ELSE IF r.kind # "tree"
         THEN [err |-> "AttributeError", key |-> path[Len(path)], val |-> <<>>]
         ELSE Metadata(ls, r.val, path[Len(path)])

\* A plausible slip: the flag is set on the tree only, not on what it holds.
FreezeShallow(tree) == [tree EXCEPT !.frozen = TRUE]

\* ConfigTree.freeze: the tree, its subtrees and its leaves become read-only.
RECURSIVE Freeze(_)
Freeze(tree) ==
    [kind |-> tree.kind,
     frozen |-> TRUE,
     body |-> IF IsTree(tree)
              THEN [k \in DOMAIN tree.body |-> Freeze(tree.body[k])]
              ELSE tree.body]

-----------------------------------------------------------------------------
(* Default configurations of components *)

DefaultsLayer == "component_configs"

ConfigLayers == <<"base", "component_configs", "override">>

KeyOrders == {<<"a", "b">>, <<"b", "a">>}

NoConflict == [err |-> "none", why |-> "none", key |-> None]

Conflict(why, key) == [err |-> "ComponentConfigError", why |-> why, key |-> key]

\* A plausible slip: take a falsy entry of the layer for an absent one.
KeyVerdictTruthy(sub_component, sub_config) ==
    IF IsKeyError(sub_config.err) THEN "pass"
    ELSE IF sub_config.kind = "value" /\ sub_config.val = Sc(0) THEN "pass"
    ELSE IF IsDict(sub_component) /\ sub_config.kind = "tree" THEN "recurse"
    ELSE IF IsDict(sub_component) \/ sub_config.kind = "tree" THEN "structure"
    ELSE "duplicate"

\* A plausible slip: compare the two scalars and raise only when they differ.
KeyVerdictUnequal(sub_component, sub_config) ==
    IF IsKeyError(sub_config.err) THEN "pass"
    ELSE IF IsDict(sub_component) /\ sub_config.kind = "tree" THEN "recurse"
    ELSE IF IsDict(sub_component) \/ sub_config.kind = "tree" THEN "structure"
    ELSE IF sub_component = sub_config.val THEN "pass"
    ELSE "duplicate"

\* A plausible slip: test the shape of the new defaults only.
KeyVerdictOneSided(sub_component, sub_config) ==
    IF IsKeyError(sub_config.err) THEN "pass"
    ELSE IF IsDict(sub_component) /\ sub_config.kind = "tree" THEN "recurse"
    ELSE IF IsDict(sub_component) THEN "structure"
    ELSE IF sub_config.kind = "tree" THEN "pass"
    ELSE "duplicate"

\* A plausible slip: no descent into two nested sides.
KeyVerdictShallow(sub_component, sub_config) ==
    IF IsKeyError(sub_config.err) THEN "pass"
    ELSE IF IsDict(sub_component) /\ sub_config.kind = "tree" THEN "pass"
    ELSE IF IsDict(sub_component) \/ sub_config.kind = "tree" THEN "structure"
    ELSE "duplicate"

\* A plausible slip: look the key up in any layer, not in component_configs.
LayerEntryAnyLayer(ls, config_, key) == GetFromLayer(ls, config_, key, None)

\* config.get_from_layer(key, layer='component_configs')
LayerEntry(ls, config_, key) == GetFromLayer(ls, config_, key, DefaultsLayer)

\* The body of the try block of check_duplicated_default_configuration for
\* one key, sub_config being the outcome of the lookup in the defaults layer:
\* a KeyError passes, two nested sides recurse, anything else raises.  The
\* recursive call stands inside the try block too (see CheckKeys).
KeyVerdict(sub_component, sub_config) ==
    IF IsKeyError(sub_config.err) THEN "pass"
    ELSE IF IsDict(sub_component) /\ sub_config.kind = "tree" THEN "recurse"
    ELSE IF IsDict(sub_component) \/ sub_config.kind = "tree" THEN "structure"
    ELSE "duplicate"

RECURSIVE CheckKeys(_, _, _, _, _)

\* A plausible slip: 'if overlapped' for 'while overlapped', so that only the
\* first key popped is examined.
CheckKeysFirstOnly(ls, component, config_, ks, ord) ==
    IF ks = <<>> THEN NoConflict
    ELSE IF Head(ks) \notin DOMAIN component \cap KeysOf(config_)
    THEN CheckKeys(ls, component, config_, Tail(ks), ord)
    ELSE LET key == Head(ks)
             sub_config == LayerEntry(ls, config_, key)
             verdict == KeyVerdict(component[key], sub_config)
         IN CASE verdict = "pass" -> NoConflict
              [] verdict = "recurse" ->
                    LET r == CheckKeys(ls, component[key][2], sub_config.val, ord, ord)
                    IN IF r.err # "none" /\ ~IsKeyError(r.err) THEN r
                       ELSE NoConflict
              [] OTHER -> Conflict(verdict, key)

\* check_duplicated_default_configuration(component, config, source); ord is
\* the order in which overlapped.pop() hands out the keys.
check_duplicated_default_configuration(ls, component, config_, ord) ==
    CheckKeys(ls, component, config_, ord, ord)

\* The while loop over the overlapped keys; ks are the keys still to pop.
CheckKeys(ls, component, config_, ks, ord) ==
    IF ks = <<>> THEN NoConflict
    ELSE IF Head(ks) \notin DOMAIN component \cap KeysOf(config_)
    THEN CheckKeys(ls, component, config_, Tail(ks), ord)
    ELSE LET key == Head(ks)
             sub_config == LayerEntry(ls, config_, key)
             verdict == KeyVerdict(component[key], sub_config)
         IN CASE verdict = "pass" -> CheckKeys(ls, component, config_, Tail(ks), ord)
              [] verdict = "recurse" ->
                    LET r == check_duplicated_default_configuration(
                                 ls, component[key][2], sub_config.val, ord)
                    IN IF r.err # "none" /\ ~IsKeyError(r.err) THEN r
                       ELSE CheckKeys(ls, component, config_, Tail(ks), ord)
              [] OTHER -> Conflict(verdict, key)

\* A plausible slip: the update comes before the check.
ApplyUpdatingFirst(ls, configuration, defaults, source, ord) ==
    LET r == Update(ls, configuration, defaults, DefaultsLayer, source)
        c == check_duplicated_default_configuration(ls, defaults, r.tree, ord)
    IN IF r.err # "none" THEN [err |-> r.err, why |-> "none", tree |-> r.tree]
       ELSE [err |-> c.err, why |-> c.why, tree |-> r.tree]

\* apply_component_default_configuration(configuration, component), the
\* component given by its configuration_defaults and its source file.
apply_component_default_configuration(ls, configuration, defaults, source, ord) ==
    LET c == check_duplicated_default_configuration(ls, defaults, configuration, ord) IN
    IF c.err # "none"
    THEN [err |-> c.err, why |-> c.why, tree |-> configuration]
    ELSE LET r == Update(ls, configuration, defaults, DefaultsLayer, source) IN
         [err |-> r.err, why |-> "none", tree |-> r.tree]

-----------------------------------------------------------------------------
(* Histories of the configuration tree *)

\* The leaves of a dict, as <<path, scalar>> pairs.
RECURSIVE LeavesOf(_, _)
LeavesOf(data, prefix) ==
    UNION {IF IsDict(data[k])
           THEN LeavesOf(data[k][2], Append(prefix, k))
           ELSE {<<Append(prefix, k), data[k]>>} : k \in DOMAIN data}

PathsOf(data) == {lf[1] : lf \in LeavesOf(data, <<>>)}

\* written after a completed write of `leaves` at layer `lay` by `source`:
\* one <<path, layer, source, value>> per path and layer, the latest.
Record(w, leaves, lay, source) ==
    {e \in w : \A lf \in leaves : ~(e[1] = lf[1] /\ e[2] = lay)}
        \cup {<<lf[1], lay, source, lf[2]>> : lf \in leaves}

Outermost(ls) == ls[Len(ls)]

\* The highest-priority layer among the recorded writes of a path.
TopWritten(ls, w, path) ==
    CHOOSE e \in w :
        /\ e[1] = path
        /\ \A f \in w : f[1] = path => LayerIndex(ls, f[2]) <= LayerIndex(ls, e[2])

-----------------------------------------------------------------------------
(* The configuration tree on its own: updates and assignments *)

LayerLists == {<<"inner", "outer">>, <<"first", "second", "third">>}

TreeData ==
    {[a |-> Sc(0)], [a |-> Sc(1)], [a |-> Sc(1), b |-> Sc(0)],
     [b |-> Dc([a |-> Sc(0)])], [b |-> Dc([a |-> Sc(1)])],
     [b |-> Dc([b |-> Sc(1)])]}

AssignPaths == {<<"a">>, <<"b">>, <<"b", "a">>}

NoOp == [op |-> "none"]

\* The data handed to the constructor: none, a leaf, a subtree.
InitialData == {NoEntries, [a |-> Sc(0)], [b |-> Dc([a |-> Sc(0)])]}

InitialSource == "initial data"

\* ConfigTree(data, layers=layers): the data goes to the lowest layer.
InitTree ==
    /\ layers \in LayerLists
    /\ \E data \in InitialData :
          /\ config = Update(layers, EmptyTree, data, layers[1], InitialSource).tree
          /\ written = Record({}, LeavesOf(data, <<>>), layers[1], InitialSource)
    /\ nops = 0
    /\ dirty = {}
    /\ last = NoOp
    /\ managers = <<>>
    /\ components = <<>>
    /\ phase = "tree"
    /\ configured = <<>>
    /\ setup = <<>>
    /\ setupCalls = <<>>
    /\ mergeCalls = <<>>
    /\ enqueued = <<>>
    /\ dequeued = <<>>
    /\ appended = <<>>
    /\ err = "none"

\* config.update(data, layer=layer, source=source)
TreeUpdate ==
    /\ nops < MaxTreeOps
    /\ \E data \in TreeData, layer \in Range(layers) \cup {None, "nolayer"},
          source \in Sources :
          LET r == Update(layers, config, data, layer, source)
              lay == IF layer = None THEN Outermost(layers) ELSE layer
          IN /\ config' = r.tree
             /\ written' = IF r.err = "none"
                           THEN Record(written, LeavesOf(data, <<>>), lay, source)
                           ELSE written
             /\ dirty' = IF r.err = "none" THEN dirty ELSE dirty \cup PathsOf(data)
             /\ last' = [op |-> "update", paths |-> PathsOf(data), layer |-> layer,
                         err |-> r.err]
    /\ nops' = nops + 1
    /\ UNCHANGED <<layers, managers, components, phase, configured, setup,
                   setupCalls, mergeCalls, enqueued, dequeued, appended, err>>

\* config.k1.k2 = value, or config[k1][k2] = value
TreeAssign ==
    /\ nops < MaxTreeOps
    /\ \E path \in AssignPaths, v \in Scalars :
          LET r == AssignPath(layers, config, path, Sc(v)) IN
          /\ config' = r.tree
          /\ written' = IF r.err = "none"
                        THEN Record(written, {<<path, Sc(v)>>}, Outermost(layers), None)
                        ELSE written
          /\ dirty' = IF r.err = "none" THEN dirty ELSE dirty \cup {path}
          /\ last' = [op |-> "assign", paths |-> {path}, layer |-> None,
                      err |-> r.err]
    /\ nops' = nops + 1
    /\ UNCHANGED <<layers, managers, components, phase, configured, setup,
                   setupCalls, mergeCalls, enqueued, dequeued, appended, err>>

\* config.k1.k2, or config[k1][k2]
TreeRead ==
    /\ nops < MaxTreeOps
    /\ \E path \in AssignPaths :
          LET r == ReadPath(layers, config, path) IN
          /\ config' = r.tree
          /\ last' = [op |-> "read", paths |-> {path}, layer |-> None,
                      err |-> r.err]
    /\ nops' = nops + 1
    /\ UNCHANGED <<layers, written, dirty, managers, components, phase,
                   configured, setup, setupCalls, mergeCalls, enqueued, dequeued,
                   appended, err>>

\* config.k1.provenance(k2)
TreeMetadata ==
    /\ nops < MaxTreeOps
    /\ \E path \in AssignPaths :
          LET r == MetadataPath(layers, config, path) IN
          /\ config' = IF Len(path) = 1 THEN config
                        ELSE ReadPath(layers, config,
                                      SubSeq(path, 1, Len(path) - 1)).tree
          /\ last' = [op |-> "provenance", paths |-> {path}, layer |-> None,
                      err |-> r.err]
    /\ nops' = nops + 1
    /\ UNCHANGED <<layers, written, dirty, managers, components, phase,
                   configured, setup, setupCalls, mergeCalls, enqueued, dequeued,
                   appended, err>>

\* config.freeze()
TreeFreeze ==
    /\ nops < MaxTreeOps
    /\ config' = Freeze(config)
    /\ last' = [op |-> "freeze", paths |-> {}, layer |-> None, err |-> "none"]
    /\ nops' = nops + 1
    /\ UNCHANGED <<layers, written, dirty, managers, components, phase,
                   configured, setup, setupCalls, mergeCalls, enqueued, dequeued,
                   appended, err>>

NextTree ==
    \/ TreeUpdate
    \/ TreeAssign
    \/ TreeRead
    \/ TreeMetadata
    \/ TreeFreeze

SpecTree == InitTree /\ [][NextTree]_vars

\* C1: whatever the order in which the layers of a key were written, reading
\* the key returns the value last written to the highest-priority layer that
\* was written for it.
C1_ReadsHighestWrittenLayer ==
    \A path \in {e[1] : e \in written} \ dirty :
        LET r == ReadPath(layers, config, path) IN
        /\ r.err = "none"
        /\ r.kind = "value"
        /\ r.val = TopWritten(layers, written, path)[4]

\* C1 witness: the last write went to a lower layer of a path than one
\* written before with another value, and the read gives the earlier,
\* higher-priority value.
C1_Witness ==
    /\ last.op = "update"
    /\ last.err = "none"
    /\ last.layer \in Range(layers)
    /\ \E e \in written, f \in written :
          /\ e[1] \in last.paths \ dirty
          /\ f[1] = e[1]
          /\ f[2] = last.layer
          /\ LayerIndex(layers, e[2]) > LayerIndex(layers, f[2])
          /\ e[4] # f[4]
          /\ ReadPath(layers, config, e[1]).val = e[4]

-----------------------------------------------------------------------------
(* Default configurations applied to a configuration tree that also takes
   writes at its other layers *)

DefaultsData ==
    {[a |-> Sc(0)], [a |-> Sc(1)],
     [a |-> Dc([b |-> Sc(0)])], [a |-> Dc([b |-> Sc(1)])],
     [a |-> Dc([b |-> Dc([a |-> Sc(1)])])],
     [b |-> Sc(1)], [b |-> Dc([a |-> Sc(1)])],
     [a |-> Sc(1), b |-> Sc(0)],
     [a |-> Dc([b |-> Sc(1)]), b |-> Dc([a |-> Sc(0)])]}

OtherData == {[a |-> Sc(1)], [a |-> Dc([b |-> Sc(1)])], [b |-> Sc(0)]}

OtherLayers == {"base", "override"}

InitDefaults ==
    /\ layers = ConfigLayers
    /\ config = EmptyTree
    /\ nops = 0
    /\ written = {}
    /\ dirty = {}
    /\ last = NoOp
    /\ managers = <<>>
    /\ components = <<>>
    /\ phase = "defaults"
    /\ configured = <<>>
    /\ setup = <<>>
    /\ setupCalls = <<>>
    /\ mergeCalls = <<>>
    /\ enqueued = <<>>
    /\ dequeued = <<>>
    /\ appended = <<>>
    /\ err = "none"

\* apply_component_default_configuration(config, component) for a component
\* with the given configuration_defaults, defined in the given source file
DefaultsApply ==
    /\ nops < MaxOps
    /\ \E data \in DefaultsData, source \in Sources, ord \in KeyOrders :
          LET r == apply_component_default_configuration(layers, config, data, source, ord) IN
          /\ config' = r.tree
          /\ last' = [op |-> "apply", data |-> data, source |-> source,
                      err |-> r.err, why |-> r.why]
    /\ nops' = nops + 1
    /\ UNCHANGED <<layers, written, dirty, managers, components, phase, configured,
                   setup, setupCalls, mergeCalls, enqueued, dequeued, appended, err>>

\* config.update(data, layer, source) at a layer other than component_configs
DefaultsOther ==
    /\ nops < MaxOps
    /\ \E data \in OtherData, layer \in OtherLayers :
          LET r == Update(layers, config, data, layer, "user") IN
          /\ config' = r.tree
          /\ last' = [op |-> "update", data |-> data, source |-> "user",
                      err |-> r.err, why |-> "none"]
    /\ nops' = nops + 1
    /\ UNCHANGED <<layers, written, dirty, managers, components, phase, configured,
                   setup, setupCalls, mergeCalls, enqueued, dequeued, appended, err>>

NextDefaults == DefaultsApply \/ DefaultsOther

SpecDefaults == InitDefaults /\ [][NextDefaults]_vars

\* What the tree stores under a path: "absent", "tree" or "node".
RECURSIVE ShapeAt(_, _)
ShapeAt(tree, path) ==
    IF ~Contains(tree, Head(path)) THEN "absent"
    ELSE IF Len(path) = 1 THEN tree.body[Head(path)].kind
    ELSE IF ~IsTree(tree.body[Head(path)]) THEN "absent"
    ELSE ShapeAt(tree.body[Head(path)], Tail(path))

RECURSIVE ChildAt(_, _)
ChildAt(tree, path) ==
    IF Len(path) = 1 THEN tree.body[Head(path)]
    ELSE ChildAt(tree.body[Head(path)], Tail(path))

\* The leaf at the path holds an entry at the layer.
HasEntry(tree, path, layer) ==
    /\ ShapeAt(tree, path) = "node"
    /\ layer \in DOMAIN ChildAt(tree, path).body

\* That entry, as <<source, value>>.
EntryAt(tree, path, layer) == ChildAt(tree, path).body[layer]

\* Some leaf of the subtree holds an entry at the layer.
RECURSIVE HoldsLayer(_, _)
HoldsLayer(child, layer) ==
    IF IsTree(child)
    THEN \E k \in DOMAIN child.body : HoldsLayer(child.body[k], layer)
    ELSE layer \in DOMAIN child.body

\* The dicts nested in a dict, as <<path, dict>> pairs.
RECURSIVE DictsOf(_, _)
DictsOf(data, prefix) ==
    UNION {IF IsDict(data[k])
           THEN {<<Append(prefix, k), data[k]>>} \cup DictsOf(data[k][2], Append(prefix, k))
           ELSE {} : k \in DOMAIN data}

Applied == last'.op = "apply" /\ nops' = nops + 1

ConfigError == "ComponentConfigError"

\* Every leaf of the defaults already has an equal entry in the defaults layer.
AllEqualInLayer(tree, data) ==
    \A lf \in LeavesOf(data, <<>>) :
        /\ HasEntry(tree, lf[1], DefaultsLayer)
        /\ EntryAt(tree, lf[1], DefaultsLayer)[2] = lf[2]

SameSource(tree, data, source) ==
    \A lf \in LeavesOf(data, <<>>) : EntryAt(tree, lf[1], DefaultsLayer)[1] = source

\* C7: defaults whose scalars equal the entries already in the
\* component-defaults layer are tolerated, as a no-op on the tree's values and
\* provenance, when those entries came from the same source, and rejected as
\* a conflict when they came from another source.
C7_EqualToleratedFromSameSource ==
    [][(Applied /\ AllEqualInLayer(config, last'.data)) =>
          IF SameSource(config, last'.data, last'.source)
          THEN last'.err = "none" /\ config' = config
          ELSE last'.err = ConfigError]_vars

\* A falsy and a differing scalar meet at a leaf of the defaults layer.
FalsyClash(tree, data) ==
    \E lf \in LeavesOf(data, <<>>) :
        /\ HasEntry(tree, lf[1], DefaultsLayer)
        /\ EntryAt(tree, lf[1], DefaultsLayer)[2] # lf[2]
        /\ Sc(0) \in {lf[2], EntryAt(tree, lf[1], DefaultsLayer)[2]}

\* C8: when the component-defaults layer holds a falsy scalar and the
\* defaults give another scalar for the key, or the other way round, applying
\* the defaults raises ComponentConfigError (and writes nothing).
C8_FalsyEntryIsNotAbsent ==
    [][(Applied /\ FalsyClash(config, last'.data)) =>
          (last'.err = ConfigError /\ config' = config)]_vars

\* C8 witness: a rejected application in which the layer held 0 and the
\* defaults gave 1, or the layer held 1 and the defaults gave 0.
C8_Witness ==
    /\ last.op = "apply"
    /\ last.err = ConfigError
    /\ FalsyClash(config, last.data)

\* The defaults give a scalar where the layer holds a nested map.
ScalarOnNested(tree, data) ==
    \E lf \in LeavesOf(data, <<>>) :
        /\ ShapeAt(tree, lf[1]) = "tree"
        /\ HoldsLayer(ChildAt(tree, lf[1]), DefaultsLayer)

\* The defaults give a nested map where the layer holds a scalar.
NestedOnScalar(tree, data) ==
    \E d \in DictsOf(data, <<>>) : HasEntry(tree, d[1], DefaultsLayer)

\* C9: a nested map on one side and a scalar on the other side of a key
\* raises ComponentConfigError, whichever side is the nested one.
C9_ShapeMismatchRaises ==
    [][(Applied /\ (ScalarOnNested(config, last'.data)
                      \/ NestedOnScalar(config, last'.data))) =>
          (last'.err = ConfigError /\ config' = config)]_vars

\* C9 witnesses: a rejected application for each of the two directions.
C9_Witness ==
    /\ last.op = "apply"
    /\ last.err = ConfigError
    /\ last.why = "structure"
    /\ ScalarOnNested(config, last.data)
    /\ ~NestedOnScalar(config, last.data)

C9_WitnessNestedNew ==
    /\ last.op = "apply"
    /\ last.err = ConfigError
    /\ last.why = "structure"
    /\ NestedOnScalar(config, last.data)
    /\ ~ScalarOnNested(config, last.data)

ProperPrefixes(path) == {SubSeq(path, 1, n) : n \in 1..(Len(path) - 1)}

\* The defaults layer holds nothing at, below or above any key of the defaults.
NewToLayer(tree, data) ==
    \A lf \in LeavesOf(data, <<>>) :
        /\ ~HasEntry(tree, lf[1], DefaultsLayer)
        /\ ShapeAt(tree, lf[1]) = "tree" =>
               ~HoldsLayer(ChildAt(tree, lf[1]), DefaultsLayer)
        /\ \A q \in ProperPrefixes(lf[1]) : ~HasEntry(tree, q, DefaultsLayer)

\* The tree has a leaf, or nothing, where the defaults have a scalar and a
\* subtree, or nothing, where the defaults have a nested map.
SameShape(tree, data) ==
    \A lf \in LeavesOf(data, <<>>) :
        /\ ShapeAt(tree, lf[1]) # "tree"
        /\ \A q \in ProperPrefixes(lf[1]) : ShapeAt(tree, q) # "node"

Merged(tree, data, source) ==
    \A lf \in LeavesOf(data, <<>>) :
        /\ HasEntry(tree, lf[1], DefaultsLayer)
        /\ EntryAt(tree, lf[1], DefaultsLayer) = <<source, lf[2]>>

\* C10 as stated: defaults whose keys have no entry in the component-defaults
\* layer are applied without a conflict, whatever the other layers hold, and
\* afterwards every key holds the component's value and source in that layer.
C10_NewKeyNeverConflicts ==
    [][(Applied /\ NewToLayer(config, last'.data)) =>
          (last'.err = "none" /\ Merged(config', last'.data, last'.source))]_vars

\* C10 amended: the same, for defaults whose keys have in the tree the shape
\* they have in the defaults (a leaf for a scalar, a subtree for a nested map)
\* or are absent from it.
C10_NewKeyOfSameShapeMerges ==
    [][(Applied /\ NewToLayer(config, last'.data) /\ SameShape(config, last'.data)) =>
          (last'.err = "none" /\ Merged(config', last'.data, last'.source))]_vars

\* C10 witness: the defaults were merged over a key that held a value in
\* another layer only.
C10_Witness ==
    /\ last.op = "apply"
    /\ last.err = "none"
    /\ Merged(config, last.data, last.source)
    /\ \E lf \in LeavesOf(last.data, <<>>), l \in OtherLayers :
          HasEntry(config, lf[1], l)

-----------------------------------------------------------------------------
(* The component manager *)

MaxQueue == 3

Managers == {"M"}

Components == {"A", "B", "C", "D", "E"}

\* hasattr(c, "setup")
HasSetup(c) == c \in {"M", "A", "B", "C"}

\* hasattr(c, "configuration_defaults")
HasDefaults(c) == c \in {"M", "C", "D", "E"}

\* c.configuration_defaults
DefaultsOf(c) ==
    CASE c = "M" -> [b |-> Sc(1)]
      [] c = "C" -> [a |-> Dc([b |-> Sc(1)])]
      [] c = "D" -> [a |-> Dc([b |-> Sc(0)])]
      [] c = "E" -> [a |-> Dc([b |-> Sc(1)])]

\* inspect.getfile(c.__class__), or '__main__'
SourceOf(c) == IF c \in {"M", "C"} THEN "s1" ELSE "s2"

SeqsUpTo(S, n) == UNION {[1..m -> S] : m \in 0..n}

\* A plausible slip: the test reads the wrong list and never passes.
NeedsConfigNever(c, configured_) == HasDefaults(c) /\ c \in Range(configured_)

\* A plausible slip: configure whatever is dequeued, configured or not.
NeedsConfigAlways(c, configured_) == HasDefaults(c)

\* hasattr(c, "configuration_defaults") and c not in configured
NeedsConfig(c, configured_) == HasDefaults(c) /\ c \notin Range(configured_)

\* A plausible slip: setup.append(c) indented under the hasattr test.
NeedsSetupWithCallback(c, setup_) == c \notin Range(setup_) /\ HasSetup(c)

\* if c != setup[-1]
NeedsSetupUnlessLast(c, setup_) == setup_ = <<>> \/ setup_[Len(setup_)] # c

\* A plausible slip: set up whatever is dequeued, set up before or not.
NeedsSetupAlways(c, setup_) == TRUE

\* c not in setup
NeedsSetup(c, setup_) == c \notin Range(setup_)

\* A plausible slip: skip a None instead of raising.
IsNoneNever(c) == FALSE

\* c is None
IsNone(c) == c = None

\* A plausible slip: a stack instead of a queue, component_list.pop().
PopIndexLast(component_list) == Len(component_list)

\* component_list.pop(0)
PopIndex(component_list) == 1

WithoutIndex(q, i) == SubSeq(q, 1, i - 1) \o SubSeq(q, i + 1, Len(q))

\* A plausible slip: the first loop stops at a None.
RECURSIVE PrePassUpToNone(_, _, _, _, _, _)
PrePassUpToNone(ls, configuration, component_list, configured_, merged, ord) ==
    IF component_list = <<>> \/ IsNone(Head(component_list))
    THEN [err |-> "none", tree |-> configuration, configured |-> configured_,
          merged |-> merged]
    ELSE LET c == Head(component_list) IN
         IF NeedsConfig(c, configured_)
         THEN LET r == apply_component_default_configuration(
                           ls, configuration, DefaultsOf(c), SourceOf(c), ord)
              IN IF r.err # "none"
                 THEN [err |-> r.err, tree |-> r.tree, configured |-> configured_,
                       merged |-> Append(merged, c)]
                 ELSE PrePassUpToNone(ls, r.tree, Tail(component_list),
                                      Append(configured_, c), Append(merged, c), ord)
         ELSE PrePassUpToNone(ls, configuration, Tail(component_list), configured_,
                              merged, ord)

\* A plausible slip: no first loop; defaults are merged as members are dequeued.
PrePassSkipped(ls, configuration, component_list, configured_, merged, ord) ==
    [err |-> "none", tree |-> configuration, configured |-> configured_,
     merged |-> merged]

\* The first loop of setup_components: the defaults of the components in the
\* list, in list order, each component once.
RECURSIVE PrePass(_, _, _, _, _, _)
PrePass(ls, configuration, component_list, configured_, merged, ord) ==
    IF component_list = <<>>
    THEN [err |-> "none", tree |-> configuration, configured |-> configured_,
          merged |-> merged]
    ELSE LET c == Head(component_list) IN
         IF ~IsNone(c) /\ NeedsConfig(c, configured_)
         THEN LET r == apply_component_default_configuration(
                           ls, configuration, DefaultsOf(c), SourceOf(c), ord)
              IN IF r.err # "none"
                 THEN [err |-> r.err, tree |-> r.tree, configured |-> configured_,
                       merged |-> Append(merged, c)]
                 ELSE PrePass(ls, r.tree, Tail(component_list),
                              Append(configured_, c), Append(merged, c), ord)
         ELSE PrePass(ls, configuration, Tail(component_list), configured_, merged, ord)

\* Arguments of add_managers / add_components: a component (or None), a list
\* of arguments, a tuple of arguments.
Leaf(c) == <<"c", c>>

List(s) == <<"l", s>>

Tuple(s) == <<"t", s>>

\* isinstance(component, list) or isinstance(component, tuple)
IsNested(component) == component[1] \in {"l", "t"}

\* component_list.insert(0, component)
AppendToFront(component_list, component) == <<component>> \o component_list

\* component_list.append(component)
AppendTo(component_list, component) == Append(component_list, component)

\* ComponentManager._add_components(component_list, components)
RECURSIVE _add_components(_, _)
_add_components(component_list, components_) ==
    IF components_ = <<>>
    THEN component_list
    ELSE LET component == Head(components_)
             after == IF IsNested(component)
                      THEN _add_components(component_list, component[2])
                      ELSE AppendTo(component_list, component[2])
         IN _add_components(after, Tail(components_))

\* The nested arguments whose members are, left to right, those of cs.
NestingsOf(cs) ==
    IF Len(cs) = 1
    THEN {<<Leaf(cs[1])>>,
          <<List(<<Leaf(cs[1])>>)>>,
          <<List(<<>>), Tuple(<<List(<<Leaf(cs[1])>>)>>)>>}
    ELSE {<<Leaf(cs[1]), Leaf(cs[2])>>,
          <<List(<<Leaf(cs[1])>>), Leaf(cs[2])>>,
          <<Leaf(cs[1]), Tuple(<<Leaf(cs[2])>>)>>,
          <<Tuple(<<Leaf(cs[1]), List(<<Leaf(cs[2])>>)>>)>>}

\* setup_components(builder, self._managers + self._components, configuration)
FirstWorklistBoth(managers_, components_) == managers_ \o components_

\* The list handed to the first call of setup_components: self._managers
FirstWorklist(managers_, components_) == managers_

\* return configured
ReturnValueConfigured(configured_, setup_) == configured_

\* return setup
ReturnValue(configured_, setup_) == setup_

\* A plausible slip: the members are added to a copy of the list.
InterfaceAddToCopy(managers_, components_, regs) ==
    [managers |-> managers_, components |-> components_]

\* self._component_manager.add_managers(components)
InterfaceAddManagers(managers_, components_, regs) ==
    [managers |-> _add_components(managers_, regs), components |-> components_]

\* ComponentInterface.add_components(components)
InterfaceAddComponents(managers_, components_, regs) ==
    [managers |-> managers_, components |-> _add_components(components_, regs)]

InitSetup ==
    /\ layers = ConfigLayers
    /\ config = EmptyTree
    /\ nops = 0
    /\ written = {}
    /\ dirty = {}
    /\ last = NoOp
    /\ managers = <<>>
    /\ components = <<>>
    /\ phase = "registering"
    /\ configured = <<>>
    /\ setup = <<>>
    /\ setupCalls = <<>>
    /\ mergeCalls = <<>>
    /\ enqueued = <<>>
    /\ dequeued = <<>>
    /\ appended = <<>>
    /\ err = "none"

\* ComponentManager.add_managers(ms)
AddManagers ==
    /\ phase = "registering"
    /\ Len(managers) <= Cardinality(Managers)
    /\ \E m \in Managers : \E arg \in NestingsOf(<<m>>) :
          /\ managers' = _add_components(managers, arg)
          /\ last' = [op |-> "add_managers", arg |-> arg]
    /\ UNCHANGED <<layers, config, nops, written, dirty, components, phase,
                   configured, setup, setupCalls, mergeCalls, enqueued, dequeued,
                   appended, err>>

\* ComponentManager.add_components(cs)
AddComponents ==
    /\ phase = "registering"
    /\ \E cs \in SeqsUpTo(Components \cup {None}, 2) :
          /\ cs # <<>>
          /\ Len(components) + Len(cs) <= MaxQueue
          /\ \E arg \in NestingsOf(cs) :
                /\ components' = _add_components(components, arg)
                /\ last' = [op |-> "add_components", arg |-> arg]
    /\ UNCHANGED <<layers, config, nops, written, dirty, managers, phase,
                   configured, setup, setupCalls, mergeCalls, enqueued, dequeued,
                   appended, err>>

\* ComponentManager.setup_components up to the while loop of
\* setup_components(builder, self._managers, configuration)
SetupManagers ==
    /\ phase = "registering"
    /\ \E ord \in KeyOrders :
          LET r == PrePass(layers, config, FirstWorklist(managers, components),
                           <<>>, <<>>, ord) IN
          /\ config' = r.tree
          /\ configured' = r.configured
          /\ mergeCalls' = mergeCalls \o r.merged
          /\ err' = r.err
          /\ phase' = IF r.err = "none" THEN "managers" ELSE "failed"
    /\ setup' = <<>>
    /\ enqueued' = managers
    /\ dequeued' = <<>>
    /\ last' = [op |-> "setup_components"]
    /\ UNCHANGED <<layers, nops, written, dirty, managers, components,
                   setupCalls, appended>>

\* The classes of the catalogue: A, B, C are instances of one class, D and E of
\* another, M of a manager class; None is an instance of none of them.
Types == {"Worker", "Holder", "Manager"}

\* isinstance(c, component_type)
IsInstance(c, component_type) ==
    CASE component_type = "Worker" -> c \in {"A", "B", "C"}
      [] component_type = "Holder" -> c \in {"D", "E"}
      [] component_type = "Manager" -> c \in Managers

\* ComponentManager.get_components(component_type), reached by a callback
\* through ComponentInterface.get_components
get_components(components_, component_type) ==
    SelectSeq(components_, LAMBDA c : IsInstance(c, component_type))

\* One iteration of the while loop of setup_components.  The setup callback,
\* when it is invoked, registers regs through builder.components; last holds
\* what get_components returns to it, for every type, as it is entered.
Drain ==
    /\ phase \in {"managers", "components"}
    /\ LET component_list == IF phase = "managers" THEN managers ELSE components IN
       /\ component_list # <<>>
       /\ LET i == PopIndex(component_list)
              c == component_list[i]
              rest == WithoutIndex(component_list, i)
              queued == IF phase = "managers" THEN Len(components) ELSE Len(enqueued)
          IN
          /\ dequeued' = Append(dequeued, c)
          /\ IF IsNone(c)
             THEN /\ phase' = "failed"
                  /\ err' = ConfigError
                  /\ IF phase = "managers"
                     THEN managers' = rest /\ components' = components
                     ELSE components' = rest /\ managers' = managers
                  /\ last' = [op |-> "iteration"]
                  /\ UNCHANGED <<config, configured, setup, setupCalls, mergeCalls,
                                 enqueued, appended>>
             ELSE \E ord \in KeyOrders :
                  LET merge == NeedsConfig(c, configured)
                      r == IF merge
                           THEN apply_component_default_configuration(
                                    layers, config, DefaultsOf(c), SourceOf(c), ord)
                           ELSE [err |-> "none", why |-> "none", tree |-> config]
                      call == r.err = "none" /\ NeedsSetup(c, setup) /\ HasSetup(c)
                  IN
                  /\ config' = r.tree
                  /\ mergeCalls' = IF merge THEN Append(mergeCalls, c) ELSE mergeCalls
                  /\ configured' = IF merge /\ r.err = "none"
                                   THEN Append(configured, c) ELSE configured
                  /\ err' = r.err
                  /\ phase' = IF r.err = "none" THEN phase ELSE "failed"
                  /\ setup' = IF r.err = "none" /\ NeedsSetup(c, setup)
                              THEN Append(setup, c) ELSE setup
                  /\ setupCalls' = IF call THEN Append(setupCalls, c) ELSE setupCalls
                  /\ last' = IF call
                             THEN [op |-> "setup",
                                   seen |-> [T \in Types |->
                                               get_components(
                                                   IF phase = "managers"
                                                   THEN components ELSE rest, T)]]
                             ELSE [op |-> "iteration"]
                  /\ \E regs \in SeqsUpTo(Components \cup {None}, MaxQueue - queued) :
                        /\ ~call => regs = <<>>
                        /\ appended' = appended \o [n \in DOMAIN regs |-> <<c, regs[n]>>]
                        /\ LET args == [n \in DOMAIN regs |-> Leaf(regs[n])]
                               after == IF phase = "managers"
                                        THEN InterfaceAddComponents(rest, components, args)
                                        ELSE InterfaceAddComponents(managers, rest, args)
                           IN /\ managers' = after.managers
                              /\ components' = after.components
                        /\ enqueued' = IF phase = "managers"
                                       THEN enqueued ELSE enqueued \o regs
    /\ UNCHANGED <<layers, nops, written, dirty>>

\* self._managers = setup_components(...) returns, and
\* setup_components(builder, self._components, configuration) runs up to its
\* while loop.
SetupComponents ==
    /\ phase = "managers"
    /\ managers = <<>>
    /\ managers' = ReturnValue(configured, setup)
    /\ \E ord \in KeyOrders :
          LET r == PrePass(layers, config, components, <<>>, <<>>, ord) IN
          /\ config' = r.tree
          /\ configured' = r.configured
          /\ mergeCalls' = mergeCalls \o r.merged
          /\ err' = r.err
          /\ phase' = IF r.err = "none" THEN "components" ELSE "failed"
    /\ setup' = <<>>
    /\ enqueued' = components
    /\ dequeued' = <<>>
    /\ UNCHANGED <<layers, nops, written, dirty, last, components, setupCalls,
                   appended>>

\* self._components = setup_components(...) returns
SetupReturns ==
    /\ phase = "components"
    /\ components = <<>>
    /\ components' = ReturnValue(configured, setup)
    /\ phase' = "done"
    /\ UNCHANGED <<layers, config, nops, written, dirty, last, managers, configured,
                   setup, setupCalls, mergeCalls, enqueued, dequeued, appended, err>>

NextSetup ==
    \/ AddManagers
    \/ AddComponents
    \/ SetupManagers
    \/ Drain
    \/ SetupComponents
    \/ SetupReturns

SpecSetup == InitSetup /\ [][NextSetup]_vars

IsComponent(c) == c \in Components

NoDup(q) == \A i, j \in DOMAIN q : q[i] = q[j] => i = j

\* The first occurrences of the elements of a sequence, in order.
RECURSIVE Dedup(_)
Dedup(q) ==
    IF q = <<>> THEN <<>>
    ELSE LET front == SubSeq(q, 1, Len(q) - 1)
             x == q[Len(q)]
         IN IF x \in Range(front) THEN Dedup(front) ELSE Append(Dedup(front), x)

Front(q) == SubSeq(q, 1, Len(q) - 1)

\* C2: when the drain of the components worklist returns normally, every
\* component that was ever on the worklist is in the finished collection once,
\* in the order of first registration, and the setup callbacks were invoked
\* in that same order.
C2_SetupInRegistrationOrder ==
    phase = "done" =>
        /\ components = Dedup(enqueued)
        /\ SelectSeq(setupCalls, IsComponent) = SelectSeq(Dedup(enqueued), HasSetup)

\* C2 witness: worklist [A, B], B's setup registered C, setup order A, B, C.
C2_Witness ==
    /\ phase = "done"
    /\ managers = <<>>
    /\ appended = <<<<"B", "C">>>>
    /\ components = <<"A", "B", "C">>
    /\ setupCalls = <<"A", "B", "C">>

\* Unprocessed, Configured, Done
Rank(c, configured_, setup_) ==
    IF c \in Range(setup_) THEN 2 ELSE IF c \in Range(configured_) THEN 1 ELSE 0

\* C3: no component has its setup callback invoked twice or its defaults
\* merged twice, however often it is put on the worklist again; the finished
\* collection holds it once; and in every iteration of a drain, and at its
\* return, no lifecycle state moves backward.
C3_SetupAndMergeAtMostOnce ==
    /\ [](/\ NoDup(setupCalls)
          /\ NoDup(mergeCalls)
          /\ NoDup(setup)
          /\ NoDup(configured)
          /\ phase = "done" => NoDup(components))
    /\ [][(Len(dequeued') = Len(dequeued) + 1 \/ phase' = "done") =>
             \A c \in Components \cup Managers :
                 Rank(c, configured', setup') >= Rank(c, configured, setup)]_vars

\* C3 witness: C, which has defaults and a setup callback, registered itself
\* again from its own setup and was dequeued a second time when already Done.
C3_Witness ==
    /\ phase = "done"
    /\ <<"C", "C">> \in Range(appended)
    /\ \E i, j \in DOMAIN dequeued : i < j /\ dequeued[i] = "C" /\ dequeued[j] = "C"
    /\ components = <<"C">>

\* C4: a None on the worklist ends setup_components with ComponentConfigError
\* when it is dequeued: the components dequeued before it had their setup
\* invoked, no element queued only behind it has, and nothing is set up later.
C4_NoneStopsTheDrain ==
    /\ [](None \in Range(dequeued) =>
            /\ phase = "failed"
            /\ err = ConfigError
            /\ dequeued[Len(dequeued)] = None
            /\ None \notin Range(Front(dequeued))
            /\ \A c \in Range(Front(dequeued)) : HasSetup(c) => c \in Range(setupCalls)
            /\ \A c \in Range(components) :
                  c \in Range(setupCalls) => c \in Range(Front(dequeued)))
    /\ [][phase = "failed" => setupCalls' = setupCalls]_vars

\* C4 witness: setup failed on a None with a set-up component before it and a
\* component with a setup callback, never invoked, still queued behind it.
C4_Witness ==
    /\ phase = "failed"
    /\ err = ConfigError
    /\ dequeued = <<"A", None>>
    /\ setupCalls = <<"A">>
    /\ components = <<"B">>

\* Two components give different scalars to the same nested key path.
Differ(c, d) ==
    \E lf \in LeavesOf(DefaultsOf(c), <<>>), lg \in LeavesOf(DefaultsOf(d), <<>>) :
        lf[1] = lg[1] /\ Len(lf[1]) > 1 /\ lf[2] # lg[2]

\* C5: when the defaults of two components of a worklist give different
\* scalars to the same nested key path, setup fails with ComponentConfigError
\* at the application of the second one.
C5_DifferentDefaultsConflict ==
    \A i, j \in DOMAIN mergeCalls :
        (i < j /\ Differ(mergeCalls[i], mergeCalls[j])) =>
            /\ j = Len(mergeCalls)
            /\ phase = "failed"
            /\ err = ConfigError
            /\ mergeCalls[j] \notin Range(configured)

\* C5 witness: D ({a: {b: 0}}) was applied after C ({a: {b: 1}}) and failed.
C5_Witness ==
    /\ phase = "failed"
    /\ err = ConfigError
    /\ \E i, j \in DOMAIN mergeCalls :
          i < j /\ mergeCalls[i] = "C" /\ mergeCalls[j] = "D"

-----------------------------------------------------------------------------
(* The configuration tree: provenance, probing, merging, freezing *)

\* The step is one operation of the tree, of one of the given kinds.
Did(ops) == last'.op \in ops /\ nops' = nops + 1

LastKey(path) == path[Len(path)]

\* A proper prefix of the path is a leaf: the path leads through a scalar.
UnderLeaf(tree, path) == \E p \in ProperPrefixes(path) : ShapeAt(tree, p) = "node"

\* The key at the end of the path is not in the tree its parent resolves to.
Missing(tree, path) == ShapeAt(tree, path) = "absent" /\ ~UnderLeaf(tree, path)

\* The path leads to a leaf in which no layer holds an entry.
EmptyLeaf(tree, path) ==
    ShapeAt(tree, path) = "node" /\ DOMAIN ChildAt(tree, path).body = {}

WrittenPaths == {e[1] : e \in written}

\* C11: the provenance of a written key holds exactly one (layer, source,
\* value) triple for each layer that was written for it, namely the latest
\* write to that layer, in ascending layer priority, whatever the order in
\* which the layers were written.
C11_ProvenanceOnePerLayerAscending ==
    \A path \in WrittenPaths \ dirty :
        LET m == MetadataPath(layers, config, path) IN
        /\ m.err = "none"
        /\ Len(m.val) = Cardinality({e \in written : e[1] = path})
        /\ \A i \in DOMAIN m.val :
              <<path, m.val[i][1], m.val[i][2], m.val[i][3]>> \in written
        /\ \A i, j \in DOMAIN m.val :
              i < j => LayerIndex(layers, m.val[i][1]) < LayerIndex(layers, m.val[j][1])

\* C11 witness: the scenario of the specification with the two updates in
\* the reverse order: outer written first, inner last.
C11_Witness ==
    /\ layers = <<"inner", "outer">>
    /\ last.op = "update"
    /\ last.layer = "inner"
    /\ last.err = "none"
    /\ MetadataPath(layers, config, <<"a">>).val =
           <<<<"inner", "s1", Sc(0)>>, <<"outer", "s2", Sc(1)>>>>
    /\ ReadPath(layers, config, <<"a">>).val = Sc(1)

C12_WitnessEmptyLeaf ==
    /\ last.op = "read"
    /\ IsKeyError(last.err)
    /\ \E path \in last.paths : EmptyLeaf(config, path)

\* The paths of all keys of the tree, those of its subtrees included.
RECURSIVE AllPathsOf(_, _)
AllPathsOf(tree, prefix) ==
    UNION {{Append(prefix, k)} \cup
           (IF IsTree(tree.body[k])
            THEN AllPathsOf(tree.body[k], Append(prefix, k))
            ELSE {}) : k \in DOMAIN tree.body}

PrefixClosure(paths) == paths \cup UNION {ProperPrefixes(p) : p \in paths}

C15_NoLayerWritesOutermost ==
    [][(Did({"update", "assign"}) /\ last'.layer = None /\ last'.err = "none") =>
          \A path \in last'.paths :
              LET e == CHOOSE e \in written' :
                           e[1] = path /\ e[2] = Outermost(layers)
                  r == ReadPath(layers, config', path)
              IN /\ HasEntry(config', path, Outermost(layers))
                 /\ EntryAt(config', path, Outermost(layers)) = <<e[3], e[4]>>
                 /\ r.err = "none"
                 /\ r.val = e[4]]_vars

\* C15 witness: a leaf was assigned a value other than the one its lowest
\* layer holds, and reads as the assigned value.
C15_Witness ==
    /\ last.op = "assign"
    /\ last.err = "none"
    /\ \E path \in last.paths :
          /\ HasEntry(config, path, layers[1])
          /\ HasEntry(config, path, Outermost(layers))
          /\ EntryAt(config, path, layers[1])[2] # EntryAt(config, path, Outermost(layers))[2]
          /\ ReadPath(layers, config, path).val = EntryAt(config, path, Outermost(layers))[2]

LeafPathsOf(tree) == {p \in AllPathsOf(tree, <<>>) : ShapeAt(tree, p) = "node"}

\* The layer a write goes to.
TargetLayer(layer) == IF layer = None THEN Outermost(layers) ELSE layer

\* C16: an update leaves every leaf that its data does not name in place
\* with the entries it had, also under a subtree that the data names, and a
\* successful update makes the leaves of the tree the union of the leaves it
\* had and the leaves of the data.
C16_UpdateMergesIntoSubtrees ==
    [][Did({"update"}) =>
          /\ \A p \in LeafPathsOf(config) \ last'.paths :
                /\ ShapeAt(config', p) = "node"
                /\ ChildAt(config', p) = ChildAt(config, p)
          /\ last'.err = "none" =>
                LeafPathsOf(config') = LeafPathsOf(config) \cup last'.paths]_vars

\* C16 witness: b.b was merged into a subtree b that held b.a, and both
\* leaves hold entries.
C16_Witness ==
    /\ last.op = "update"
    /\ last.err = "none"
    /\ last.paths = {<<"b", "b">>}
    /\ \E l \in Range(layers) : HasEntry(config, <<"b", "a">>, l)
    /\ \E l \in Range(layers) : HasEntry(config, <<"b", "b">>, l)

\* The data of the update names a subtree under a key that is a leaf.
NestedOnLeaf(tree, paths) == \E q \in paths : UnderLeaf(tree, q)

\* The data of the update names a scalar for a key that is a subtree.
ScalarOnSubtree(tree, paths) == \E q \in paths : ShapeAt(tree, q) = "tree"

C18_ShapeMismatchRaises ==
    [][(/\ Did({"update"})
        /\ NestedOnLeaf(config, last'.paths) \/ ScalarOnSubtree(config, last'.paths)) =>
          /\ IsConfigurationError(last'.err)
          /\ last'.layer \in Range(layers) \cup {None} =>
                last'.err = "ConfigurationError"]_vars

\* C18 witness: a nested map was supplied for a leaf of an unfrozen tree.
C18_Witness ==
    /\ last.op = "update"
    /\ last.err = "ConfigurationError"
    /\ ~config.frozen
    /\ NestedOnLeaf(config, last.paths)

\* C18, other direction: a scalar was supplied for a subtree.
C18_WitnessScalarOnSubtree ==
    /\ last.op = "update"
    /\ last.err = "ConfigurationError"
    /\ ~config.frozen
    /\ ScalarOnSubtree(config, last.paths)

\* C19: a frozen tree stays frozen and keeps everything it stores, values
\* and provenance, over every step, and every update or assignment to it
\* fails with a configuration error (an assignment that leads through a
\* scalar does not get to the tree and fails as an attribute error).
C19_FrozenStaysFrozen ==
    [][config.frozen =>
          /\ config'.frozen
          /\ config' = config
          /\ Did({"update", "assign"}) =>
                /\ last'.err # "none"
                /\ IsConfigurationError(last'.err) \/
                      (last'.op = "assign" /\ NestedOnLeaf(config, last'.paths))]_vars

\* C19 witness: a write to a frozen tree that holds a key was refused.
C19_Witness ==
    /\ config.frozen
    /\ Length(config) > 0
    /\ last.op \in {"update", "assign"}
    /\ last.layer \in Range(layers) \cup {None}
    /\ last.err = "ConfigurationError"

\* What a read or a provenance query hands to its caller.
Outcome(r) == <<r.err, r.key, r.val>>

UnknownLayer(layer) == layer \notin Range(layers) \cup {None}

C20_WitnessNewKey ==
    /\ last.op = "update"
    /\ UnknownLayer(last.layer)
    /\ IsKeyError(last.err)
    /\ \E path \in last.paths : EmptyLeaf(config, path)

(***************************************************************************)
(* The component manager: registration, phases, termination                *)
(***************************************************************************)

Members(q) == Range(q)

\* C21: no two members of the managers list, or of the components list, share
\* a name, whatever add_managers and add_components calls were made: a call
\* that would introduce a duplicate fails and adds nothing.
C21_NoTwoMembersShareAName == NoDup(managers) /\ NoDup(components)

\* C22: None is never a member of the managers list or of the components
\* list: a registration that names it fails and adds nothing.
C22_NoneIsNeverAMember == None \notin Members(managers) \cup Members(components)

\* The index paths of the members of a nested argument.
RECURSIVE IndexPaths(_)
IndexPaths(arg) ==
    UNION {IF IsNested(arg[i])
           THEN {<<i>> \o p : p \in IndexPaths(arg[i][2])}
           ELSE {<<i>>} : i \in DOMAIN arg}

\* The member of a nested argument at an index path.
RECURSIVE MemberAt(_, _)
MemberAt(arg, p) ==
    IF Len(p) = 1 THEN arg[p[1]][2] ELSE MemberAt(arg[p[1]][2], Tail(p))

\* p comes before q, depth first and left to right.
RECURSIVE Before(_, _)
Before(p, q) ==
    /\ p # <<>>
    /\ q # <<>>
    /\ \/ p[1] < q[1]
       \/ p[1] = q[1] /\ Before(Tail(p), Tail(q))

\* q is old followed by the members of arg, depth first and left to right.
Extends(old, q, arg) ==
    /\ Len(q) = Len(old) + Cardinality(IndexPaths(arg))
    /\ SubSeq(q, 1, Len(old)) = old
    /\ \A p \in IndexPaths(arg) :
          q[Len(old) + 1 + Cardinality({r \in IndexPaths(arg) : Before(r, p)})]
             = MemberAt(arg, p)

\* C23: add_components and add_managers append the members of their argument,
\* however it nests lists and tuples, to the end of the target list in
\* depth-first left-to-right order; the members the list had keep their places
\* and the other list is not touched.
C23_RegistrationAppendsDepthFirst ==
    [][/\ last'.op = "add_components" /\ phase' = "registering"
          => Extends(components, components', last'.arg) /\ managers' = managers
       /\ last'.op = "add_managers" /\ phase' = "registering"
          => Extends(managers, managers', last'.arg) /\ components' = components]_vars

C23_Witness ==
    /\ phase = "registering"
    /\ last.op = "add_components"
    /\ Cardinality(IndexPaths(last.arg)) = 2
    /\ \E p \in IndexPaths(last.arg) : Len(p) = 3
    /\ Len(components) = 3
    /\ managers # <<>>
    /\ components[2] # components[3]

(***************************************************************************)
(* The while loop of setup_components, run to its end                      *)
(***************************************************************************)

\* The most members one setup callback registers.
MaxAppend == 1

\* Component instances that declare setup; C declares defaults as well.
DrainComponents == {"A", "B", "C"}

\* Iterations enough for a start list of two members and one setup call of
\* every instance.
IterationCap == 2 + Cardinality(DrainComponents) * MaxAppend + 1

\* setup_components(builder, self._components, configuration) has run its
\* first loop over a list of component instances.
InitDrain ==
    /\ layers = ConfigLayers
    /\ \E component_list \in SeqsUpTo(DrainComponents, 2) \ {<<>>} :
       \E ord \in KeyOrders :
          LET r == PrePass(layers, EmptyTree, component_list, <<>>, <<>>, ord) IN
          /\ components = component_list
          /\ config = r.tree
          /\ configured = r.configured
          /\ err = r.err
    /\ nops = 0
    /\ written = {}
    /\ dirty = {}
    /\ last = NoOp
    /\ managers = <<>>
    /\ phase = "components"
    /\ setup = <<>>
    /\ setupCalls = <<>>
    /\ mergeCalls = <<>>
    /\ enqueued = <<>>
    /\ dequeued = <<>>
    /\ appended = <<>>

\* One iteration of the while loop of setup_components; nops counts the
\* iterations.  The setup callback, when it is invoked, registers regs.
DrainLoop ==
    /\ phase = "components"
    /\ components # <<>>
    /\ nops < IterationCap
    /\ nops' = nops + 1
    /\ LET i == PopIndex(components)
           c == components[i]
           rest == WithoutIndex(components, i)
       IN
       IF IsNone(c)
       THEN /\ phase' = "failed"
            /\ err' = ConfigError
            /\ components' = rest
            /\ UNCHANGED <<config, configured, setup>>
       ELSE \E ord \in KeyOrders :
            LET merge == NeedsConfig(c, configured)
                r == IF merge
                     THEN apply_component_default_configuration(
                              layers, config, DefaultsOf(c), SourceOf(c), ord)
                     ELSE [err |-> "none", why |-> "none", tree |-> config]
                call == r.err = "none" /\ NeedsSetup(c, setup) /\ HasSetup(c)
            IN
            /\ config' = r.tree
            /\ configured' = IF merge /\ r.err = "none"
                             THEN Append(configured, c) ELSE configured
            /\ err' = r.err
            /\ phase' = IF r.err = "none" THEN phase ELSE "failed"
            /\ setup' = IF r.err = "none" /\ NeedsSetup(c, setup)
                        THEN Append(setup, c) ELSE setup
            /\ \E regs \in SeqsUpTo(DrainComponents, MaxAppend) :
                  /\ ~call => regs = <<>>
                  /\ components' = InterfaceAddComponents(
                                       managers, rest,
                                       [n \in DOMAIN regs |-> Leaf(regs[n])]).components
    /\ UNCHANGED <<layers, written, dirty, last, managers, setupCalls, mergeCalls,
                   enqueued, dequeued, appended>>

NextDrain ==
    \/ DrainLoop
    \/ SetupReturns

\* The loop goes on to its next iteration, and returns when the list is empty.
SpecDrain ==
    /\ InitDrain
    /\ [][NextDrain]_vars
    /\ WF_vars(DrainLoop)
    /\ WF_vars(SetupReturns)

\* C25: with finitely many component instances, each setup call registering
\* finitely many members, the loop ends and returns with an empty worklist,
\* also when callbacks register members that are queued or done already.
C25_DrainTerminates ==
    /\ <>(phase = "done")
    /\ [](phase = "components" /\ components # <<>> => nops < IterationCap)
    /\ [][phase' = "done" /\ phase # "done" => components = <<>>]_vars

\* Two instances took four iterations: each was registered again by a setup
\* callback, dequeued again and passed over.
C25_Witness ==
    /\ phase = "done"
    /\ Len(components) = 2
    /\ nops = 4

\* The members a history gained in a step.
NewOf(old, new) == {new[i] : i \in (Len(old) + 1)..Len(new)}

\* The managers' worklist has been drained: every manager that was registered
\* has been dequeued and is done, its setup invoked if it declares one.
ManagersDone ==
    /\ managers = <<>>
    /\ dequeued = enqueued
    /\ \A m \in Members(enqueued) :
          m \in Members(setup) /\ (HasSetup(m) => m \in Members(setupCalls))

\* C24: no component's defaults are merged and no component's setup is invoked
\* until every manager has been dequeued and set up; while the components are
\* processed the managers list holds the managers that were set up.
C24_ManagersBeforeComponents ==
    /\ [][(NewOf(mergeCalls, mergeCalls') \cup NewOf(setupCalls, setupCalls'))
              \cap Components # {}
          => \/ phase = "components"
             \/ phase = "managers" /\ ManagersDone]_vars
    /\ [](phase = "components"
          => \A m \in Members(managers) :
                m \in Managers /\ m \in Members(setupCalls))

C24_Witness ==
    /\ phase = "done"
    /\ "M" \in Members(setupCalls)
    /\ \E i \in DOMAIN appended :
          /\ appended[i][1] = "M"
          /\ appended[i][2] \in Components
          /\ HasDefaults(appended[i][2])
          /\ appended[i][2] \in Members(mergeCalls) \cap Members(setupCalls)

\* What the setup callbacks of components registered, in registration order.
RegisteredByComponents ==
    LET by == SelectSeq(appended, LAMBDA x : x[1] \in Components)
    IN [i \in DOMAIN by |-> by[i][2]]

\* The components list as it was when its worklist was started.
InitiallyPresent ==
    SubSeq(enqueued, 1, Len(enqueued) - Len(RegisteredByComponents))

\* C26: when ComponentManager.setup_components has returned, everything that
\* entered the worklist has left it, and the components list holds every
\* registered component once, in the order of processing: those present at the
\* start first, then those the callbacks registered, in registration order.
C26_ReturnsProcessedSequence ==
    phase = "done"
    => /\ dequeued = enqueued
       /\ components = Dedup(InitiallyPresent \o RegisteredByComponents)
       /\ components = Dedup(dequeued)
       /\ Members(components) = Members(enqueued)
       /\ NoDup(components)

C26_Witness ==
    /\ phase = "done"
    /\ Len(InitiallyPresent) = 1
    /\ Len(RegisteredByComponents) = 2
    /\ RegisteredByComponents[1] = InitiallyPresent[1]
    /\ RegisteredByComponents[2] # InitiallyPresent[1]
    /\ Len(components) = 2
    /\ \E c \in Members(components) : ~HasDefaults(c)

IsPrefix(p, q) == Len(p) <= Len(q) /\ SubSeq(q, 1, Len(p)) = p

\* C27: a setup callback, which reaches the manager through the component
\* interface, only appends to the components list: across the iteration that
\* invokes it the managers list changes by the loop's own pop at most, and the
\* members of the components list keep their places, new ones coming after.
C27_CallbackOnlyAppendsComponents ==
    [][setupCalls' # setupCalls
       => /\ phase = "managers"
             => managers' = Tail(managers) /\ IsPrefix(components, components')
          /\ phase = "components"
             => managers' = managers /\ IsPrefix(Tail(components), components')
          /\ Len(components') - Len(components) \in
                {Len(appended') - Len(appended), Len(appended') - Len(appended) - 1}
          /\ \A n \in 1..(Len(appended') - Len(appended)) :
                components'[Len(components') - n + 1]
                   = appended'[Len(appended') - n + 1][2]]_vars

C27_Witness ==
    /\ phase = "managers"
    /\ managers # <<>>
    /\ Len(components) = 3
    /\ Len(appended) = 2
    /\ appended[1][1] = "M"
    /\ components[1] # appended[1][2]

(***************************************************************************)
(* The configuration tree: access by key and by attribute                  *)
(***************************************************************************)

AccessKeys == {"a", "b", "update"}

AccessData ==
    {NoEntries, [a |-> Sc(0)], [update |-> Sc(1)], [a |-> Sc(1), update |-> Sc(0)],
     [b |-> Dc([a |-> Sc(0)])], [update |-> Dc([a |-> Sc(1)])]}

\* ConfigTree(data, layers=layers)
InitAccess ==
    /\ layers \in LayerLists
    /\ \E data \in AccessData :
          config = Update(layers, EmptyTree, data, layers[1], InitialSource).tree
    /\ nops = 0
    /\ written = {}
    /\ dirty = {}
    /\ last = NoOp
    /\ managers = <<>>
    /\ components = <<>>
    /\ phase = "tree"
    /\ configured = <<>>
    /\ setup = <<>>
    /\ setupCalls = <<>>
    /\ mergeCalls = <<>>
    /\ enqueued = <<>>
    /\ dequeued = <<>>
    /\ appended = <<>>
    /\ err = "none"

\* config[name]
ReadByKey ==
    /\ nops < MaxTreeOps
    /\ \E name \in AccessKeys :
          LET r == GetItem(layers, config, name) IN
          /\ config' = r.tree
          /\ last' = [op |-> "getitem", name |-> name, err |-> r.err,
                      kind |-> r.kind]
    /\ nops' = nops + 1
    /\ UNCHANGED <<layers, written, dirty, managers, components, phase,
                   configured, setup, setupCalls, mergeCalls, enqueued, dequeued,
                   appended, err>>

\* config.name
ReadByAttribute ==
    /\ nops < MaxTreeOps
    /\ \E name \in AccessKeys :
          LET r == GetAttr(layers, config, name) IN
          /\ config' = r.tree
          /\ last' = [op |-> "getattr", name |-> name, err |-> r.err,
                      kind |-> r.kind]
    /\ nops' = nops + 1
    /\ UNCHANGED <<layers, written, dirty, managers, components, phase,
                   configured, setup, setupCalls, mergeCalls, enqueued, dequeued,
                   appended, err>>

\* config[name] = value
AssignByKey ==
    /\ nops < MaxTreeOps
    /\ \E name \in AccessKeys, v \in Scalars :
          LET r == SetItem(layers, config, name, Sc(v)) IN
          /\ config' = r.tree
          /\ last' = [op |-> "setitem", name |-> name, err |-> r.err,
                      kind |-> "value"]
    /\ nops' = nops + 1
    /\ UNCHANGED <<layers, written, dirty, managers, components, phase,
                   configured, setup, setupCalls, mergeCalls, enqueued, dequeued,
                   appended, err>>

\* config.name = value
AssignByAttribute ==
    /\ nops < MaxTreeOps
    /\ \E name \in AccessKeys, v \in Scalars :
          LET r == SetAttr(layers, config, name, Sc(v)) IN
          /\ config' = r.tree
          /\ last' = [op |-> "setattr", name |-> name, err |-> r.err,
                      kind |-> "value"]
    /\ nops' = nops + 1
    /\ UNCHANGED <<layers, written, dirty, managers, components, phase,
                   configured, setup, setupCalls, mergeCalls, enqueued, dequeued,
                   appended, err>>

\* del config[name]
DeleteByKey ==
    /\ nops < MaxTreeOps
    /\ \E name \in AccessKeys :
          LET r == DelItem(config, name) IN
          /\ config' = r.tree
          /\ last' = [op |-> "delitem", name |-> name, err |-> r.err,
                      kind |-> "none"]
    /\ nops' = nops + 1
    /\ UNCHANGED <<layers, written, dirty, managers, components, phase,
                   configured, setup, setupCalls, mergeCalls, enqueued, dequeued,
                   appended, err>>

\* del config.name
DeleteByAttribute ==
    /\ nops < MaxTreeOps
    /\ \E name \in AccessKeys :
          LET r == DelAttr(config, name) IN
          /\ config' = r.tree
          /\ last' = [op |-> "delattr", name |-> name, err |-> r.err,
                      kind |-> "none"]
    /\ nops' = nops + 1
    /\ UNCHANGED <<layers, written, dirty, managers, components, phase,
                   configured, setup, setupCalls, mergeCalls, enqueued, dequeued,
                   appended, err>>

NextAccess ==
    \/ ReadByKey
    \/ ReadByAttribute
    \/ AssignByKey
    \/ AssignByAttribute
    \/ DeleteByKey
    \/ DeleteByAttribute
    \/ TreeFreeze

SpecAccess == InitAccess /\ [][NextAccess]_vars

SameRead(r, s) ==
    r.err = s.err /\ r.kind = s.kind /\ r.val = s.val /\ r.tree = s.tree

SameEffect(r, s) == r.err = s.err /\ r.tree = s.tree

ReadsAgree(name) ==
    SameRead(GetAttr(layers, config, name), GetItem(layers, config, name))

AssignsAgree(name) ==
    \A v \in Scalars :
       SameEffect(SetAttr(layers, config, name, Sc(v)),
                  SetItem(layers, config, name, Sc(v)))

C28_WitnessMethodName ==
    /\ last.op = "getattr"
    /\ last.name = "update"
    /\ last.kind = "method"
    /\ GetItem(layers, config, "update").kind = "value"
    /\ GetItem(layers, config, "update").err = "none"
    /\ GetItem(layers, config, "update").val = Sc(1)

Iteration ==
    /\ phase \in {"managers", "components"}
    /\ dequeued' # dequeued
    /\ Front(dequeued') = dequeued

Dequeued == dequeued'[Len(dequeued')]

\* C30: a component that declares defaults is never done without being
\* configured: its defaults are merged before its own setup is invoked.  A
\* component registered during the traversal is merged in the iteration that
\* dequeues it, just before its setup, and not when it is registered.
C30_MergeBeforeOwnSetup ==
    /\ [](\A c \in Members(setup) :
             HasDefaults(c)
             => c \in Members(configured) /\ AllEqualInLayer(config, DefaultsOf(c)))
    /\ [][Iteration
          => /\ Members(configured') \ Members(configured) \subseteq {Dequeued}
             /\ mergeCalls' \in {mergeCalls, Append(mergeCalls, Dequeued)}
             /\ ~IsNone(Dequeued) /\ HasDefaults(Dequeued)
                   /\ Dequeued \notin Members(configured)
                => mergeCalls' = Append(mergeCalls, Dequeued)
             /\ setupCalls' # setupCalls /\ HasDefaults(Dequeued)
                => /\ setupCalls' = Append(setupCalls, Dequeued)
                   /\ Dequeued \in Members(configured')
                   /\ AllEqualInLayer(config', DefaultsOf(Dequeued))]_vars

\* A's setup registered C; C was not merged then, and was merged and set up in
\* the iteration that dequeued it.
C30_Witness ==
    /\ phase = "components"
    /\ \E i \in DOMAIN appended : appended[i] = <<"A", "C">>
    /\ "C" \notin Members(InitiallyPresent)
    /\ dequeued # <<>>
    /\ dequeued[Len(dequeued)] = "C"
    /\ mergeCalls[Len(mergeCalls)] = "C"
    /\ setupCalls[Len(setupCalls)] = "C"
    /\ "C" \in Members(configured)

\* A's setup has registered C, which waits in the list, not merged.
C30_WitnessRegistered ==
    /\ phase = "components"
    /\ appended # <<>>
    /\ appended[Len(appended)] = <<"A", "C">>
    /\ "C" \in Members(components)
    /\ "C" \notin Members(mergeCalls)
    /\ "C" \notin Members(configured)

(***************************************************************************)
(* The component manager: skipped transitions, failures, queries           *)
(***************************************************************************)

\* C31: a component without a setup callback is marked done, and is in the
\* finished collection, without any setup call; a component without declared
\* defaults is never merged and leaves the configuration as it is, while its
\* setup callback is invoked all the same.
C31_MissingPartsAreSkipped ==
    /\ [](\A c \in Members(mergeCalls) \cup Members(configured) : HasDefaults(c))
    /\ [](\A c \in Members(setupCalls) : HasSetup(c))
    /\ [](phase = "done"
          => \A c \in Members(enqueued) : c \in Members(components))
    /\ [][Iteration /\ ~IsNone(Dequeued)
          => /\ ~HasSetup(Dequeued) /\ err' = "none"
                => /\ Dequeued \in Members(setup')
                   /\ setupCalls' = setupCalls
                   /\ appended' = appended
             /\ ~HasDefaults(Dequeued)
                => /\ config' = config
                   /\ mergeCalls' = mergeCalls
                   /\ configured' = configured
                   /\ err' = "none"
                   /\ Dequeued \in Members(setup')
                   /\ HasSetup(Dequeued) /\ Dequeued \notin Members(setup)
                      => setupCalls' = Append(setupCalls, Dequeued)]_vars

\* D has defaults and no setup, A has a setup and no defaults: both are done.
C31_Witness ==
    /\ phase = "done"
    /\ components = <<"D", "A">>
    /\ setupCalls = <<"A">>
    /\ mergeCalls = <<"D">>
    /\ AllEqualInLayer(config, DefaultsOf("D"))

(***************************************************************************)
(* The configuration tree: repeated writes, deletion                       *)
(***************************************************************************)

\* C32: an update of an unfrozen tree that names a leaf which already holds
\* an entry at the layer of the update (the outermost layer when none is
\* named) raises a duplicated-configuration error, and the entry stays as it
\* was.
C32_SecondWriteAtLayerRaises ==
    [][(/\ Did({"update"})
        /\ ~config.frozen
        /\ ~UnknownLayer(last'.layer)
        /\ \A p \in last'.paths : HasEntry(config, p, TargetLayer(last'.layer)))
       => /\ last'.err = "DuplicatedConfigurationError"
          /\ \A p \in last'.paths :
                EntryAt(config', p, TargetLayer(last'.layer))
                   = EntryAt(config, p, TargetLayer(last'.layer))]_vars

(***************************************************************************)
(* Default configurations: failures and the order of the check             *)
(***************************************************************************)

\* C33: the defaults are checked as a whole before anything is written: when
\* apply_component_default_configuration fails with a component-config-error
\* the tree, with the entries and sources of every layer, is as it was.
C33_ConflictWritesNothing ==
    [][Applied /\ last'.err = ConfigError => config' = config]_vars

\* The defaults name a and b; a conflicts, b is not in the tree and stays out.
C33_Witness ==
    /\ last.op = "apply"
    /\ last.err = ConfigError
    /\ last.data = [a |-> Sc(1), b |-> Sc(0)]
    /\ last.why = "duplicate"
    /\ HasEntry(config, <<"a">>, DefaultsLayer)
    /\ ~Contains(config, "b")

\* The check reaches the path: every key above it is a subtree of the tree.
Reached(tree, q) ==
    \A i \in 1..(Len(q) - 1) : ShapeAt(tree, SubSeq(q, 1, i)) = "tree"

\* The paths of the defaults, at any depth, at which the tree holds something
\* for the component-defaults layer that the defaults cannot be merged with.
ConflictPaths(tree, data) ==
    {lf[1] : lf \in {x \in LeavesOf(data, <<>>) :
                        /\ Reached(tree, x[1])
                        /\ \/ ShapeAt(tree, x[1]) = "tree"
                           \/ HasEntry(tree, x[1], DefaultsLayer)}}
    \cup
    {d[1] : d \in {x \in DictsOf(data, <<>>) :
                      /\ Reached(tree, x[1])
                      /\ HasEntry(tree, x[1], DefaultsLayer)}}

\* C34: a conflict at any nesting depth of the check reaches the caller of
\* apply_component_default_configuration as a component-config-error, and a
\* key without an entry at the component-defaults layer never counts as a
\* conflict: the call fails with a component-config-error exactly when some
\* path of the defaults conflicts.
C34_DeepConflictPropagates ==
    [][Applied => (last'.err = ConfigError
                   <=> ConflictPaths(config, last'.data) # {})]_vars

\* The only conflict lies three keys deep.
C34_Witness ==
    /\ last.op = "apply"
    /\ last.err = ConfigError
    /\ last.data = [a |-> Dc([b |-> Dc([a |-> Sc(1)])])]
    /\ ConflictPaths(config, last.data) = {<<"a", "b", "a">>}

\* A leaf without an entry at the component-defaults layer did not conflict.
C34_WitnessMissingEntry ==
    /\ last.op = "apply"
    /\ last.err = "none"
    /\ last.data = [a |-> Dc([b |-> Sc(1)])]
    /\ \E l \in OtherLayers : HasEntry(config, <<"a", "b">>, l)
    /\ HasEntry(config, <<"a", "b">>, DefaultsLayer)

\* The worklist failed because None was dequeued.
NoneDequeued ==
    /\ phase = "failed"
    /\ dequeued # <<>>
    /\ IsNone(dequeued[Len(dequeued)])

\* The members still queued when the worklist failed.
Queued == Members(components) \ {None}

\* The component-defaults layer holds a default of c, from c's source.
ContributedBy(tree, c) ==
    \E lf \in LeavesOf(DefaultsOf(c), <<>>) :
       /\ HasEntry(tree, lf[1], DefaultsLayer)
       /\ EntryAt(tree, lf[1], DefaultsLayer) = <<SourceOf(c), lf[2]>>

\* C35 as stated: when a worklist fails on a dequeued None, the tree holds no
\* defaults of a component that was still queued then.
C35_NothingFromBehindNone ==
    NoneDequeued
    => \A c \in Queued : HasDefaults(c) => ~ContributedBy(config, c)

\* C35, amended: the tree holds no defaults of a component that was registered
\* during the traversal and never dequeued; the defaults of every component
\* that was in the list when the worklist was started are in the tree, those
\* queued behind the None included.
C35_OnlyRegisteredLaterLeftOut ==
    NoneDequeued
    => /\ \A c \in Queued :
             HasDefaults(c) /\ c \notin Members(InitiallyPresent)
                /\ c \notin Members(dequeued)
             => ~ContributedBy(config, c) /\ c \notin Members(configured)
       /\ \A c \in Members(InitiallyPresent) \ {None} :
             HasDefaults(c)
             => ContributedBy(config, c) /\ c \in Members(configured)

\* A's setup registered None and then C: C is queued and was never merged.
C35_Witness ==
    /\ NoneDequeued
    /\ enqueued = <<"A", None, "C">>
    /\ components = <<"C">>
    /\ ~ContributedBy(config, "C")

\* The list was None, C at the start: C's defaults are in the tree.
C35_WitnessPresentAtStart ==
    /\ NoneDequeued
    /\ enqueued = <<None, "C">>
    /\ components = <<"C">>
    /\ ContributedBy(config, "C")

\* The member is done in the worklist being processed or just finished.
DoneIn(q, c) ==
    /\ c \in Members(q)
    /\ HasSetup(c) => c \in Members(setupCalls)
    /\ HasDefaults(c) => c \in Members(mergeCalls)

\* What setup callbacks registered, in either phase.
RegisteredByCallbacks == {appended[i][2] : i \in DOMAIN appended}

RegisteredComponents ==
    (IF phase = "managers" THEN Members(components) ELSE Members(enqueued)) \ {None}

\* C37: whenever a setup callback is entered, get_components(T) returns every
\* component of type T registered so far - queued, being set up or done - and
\* no manager.
C37_QuerySeesAllRegistered ==
    [][last'.op = "setup" /\ Iteration
       => \A T \in Types :
             Members(last'.seen[T]) = {c \in RegisteredComponents : IsInstance(c, T)}]_vars


(* The configuration tree: deletion from a frozen tree *)

\* C38: no operation on a frozen tree changes its key set or the value a key
\* resolves to: assignment fails, and deletion by key or by attribute leaves
\* the tree as it is.
C38_FrozenTreeKeepsKeysAndValues ==
    [][config.frozen
       => /\ KeysOf(config') = KeysOf(config)
          /\ \A name \in KeysOf(config) :
                LET r == GetItem(layers, config', name)
                    s == GetItem(layers, config, name) IN
                r.err = s.err /\ r.kind = s.kind /\ r.val = s.val]_vars


(* Default configurations: the order in which the check pops the keys *)

\* The keys that the defaults and the tree share: the set the check pops from.
Overlapped(tree, data) == DOMAIN data \cap KeysOf(tree)

RECURSIVE LookupsKeepTree(_, _)

\* Every lookup the check makes, at every depth it descends to, hands the
\* tree back as it was.
LookupsKeepTree(tree, data) ==
    \A key \in Overlapped(tree, data) :
       LET sub_config == LayerEntry(layers, tree, key) IN
       /\ sub_config.tree = tree
       /\ KeyVerdict(data[key], sub_config) = "recurse"
             => LookupsKeepTree(sub_config.val, data[key][2])

\* C39: for given defaults and a given tree, whether the conflict check
\* passes or fails with a component-config-error is the same for every order
\* in which the overlapping keys are popped, and the check leaves the tree as
\* it was.
C39_OutcomeIndependentOfPopOrder ==
    \A data \in DefaultsData :
       /\ \A o1, o2 \in KeyOrders :
             check_duplicated_default_configuration(layers, data, config, o1).err
                = check_duplicated_default_configuration(layers, data, config, o2).err
       /\ LookupsKeepTree(config, data)

\* Two overlapping keys of which one conflicts and the other passes: the two
\* orders meet the conflict at the first and at the second key popped.
C39_Witness ==
    \E data \in DefaultsData :
       /\ Overlapped(config, data) = {"a", "b"}
       /\ HasEntry(config, <<"a">>, DefaultsLayer)
       /\ IsKeyError(LayerEntry(layers, config, "b").err)
       /\ \A o \in KeyOrders :
             check_duplicated_default_configuration(layers, data, config, o)
                = Conflict("duplicate", "a")

\* Both overlapping keys conflict, and the order decides which one is reported.
C39_WitnessReportedKeyDiffers ==
    \E data \in DefaultsData :
       /\ check_duplicated_default_configuration(layers, data, config, <<"a", "b">>).key = "a"
       /\ check_duplicated_default_configuration(layers, data, config, <<"b", "a">>).key = "b"

=============================================================================
